---- MODULE Spec2Model ----
(***************************************************************************)
(* replace_prints.py: a directory walk that collects the *.swift files, a  *)
(* three-rule regular-expression rewriter applied to each file, and the    *)
(* driver that reports what was found and modified.                        *)
(*                                                                         *)
(* Text is a sequence of lexemes.  The lexemes the three patterns name     *)
(* ("print", "(", the double quote, "[", "]", ",", ")", blank) are single   *)
(* elements; every other element is a run of ordinary characters, which    *)
(* the character classes [^\]], [^"] and [^)] all accept.                  *)
(***************************************************************************)
EXTENDS Integers, Sequences, FiniteSets, TLC

\* ------------------------------------------------------------------ bounds
MaxFrags == 5       \* longest file content, in fragments (rewriter harness)
MaxRuns  == 2       \* calls of replace_print_statements made by the harness
MaxDepth == 2       \* deepest nested subdirectory below the root

\* ------------------------------------------------------------ text helpers
QUOTE == "\""

Min(S) == CHOOSE x \in S : \A y \in S : x <= y

\* index of the first element at or after `from` that is in `stops`,
\* Len(s) + 1 when there is none: the place a negated class [^c]+ stops.
FirstIn(s, from, stops) ==
    LET hits == {x \in from..Len(s) : s[x] \in stops}
    IN  IF hits = {} THEN Len(s) + 1 ELSE Min(hits)

\* index of the first element at or after `from` that is not whitespace:
\* the place the greedy \s* stops.
SkipSpace(s, from) ==
    LET hits == {x \in from..Len(s) : s[x] # " "}
    IN  IF hits = {} THEN Len(s) + 1 ELSE Min(hits)

At(s, i) == IF i >= 1 /\ i <= Len(s) THEN s[i] ELSE "<eof>"

NoMatch == [ok |-> FALSE, end |-> 0, g1 |-> <<>>, g2 |-> <<>>]

\* variant: the prefix accepts any callee name before ("
OpensPrintAnyCallee(s, i) ==
    /\ At(s, i) # "<eof>"
    /\ At(s, i + 1) = "("
    /\ At(s, i + 2) = QUOTE

\* print\("  -- the literal prefix the three patterns share
OpensPrint(s, i) ==
    /\ At(s, i) = "print"
    /\ At(s, i + 1) = "("
    /\ At(s, i + 2) = QUOTE

\* r'print\("\[([^\]]+)\]\s*([^"]+)"\)'
MatchBracketed(s, i) ==
    IF ~(OpensPrint(s, i) /\ At(s, i + 3) = "[") THEN NoMatch
    ELSE
    LET j == FirstIn(s, i + 4, {"]"})          \* the closing bracket
        k == SkipSpace(s, j + 1)               \* after the greedy \s*
        q == FirstIn(s, k, {QUOTE})            \* the closing quote
        \* \s* gives one blank back when it left nothing for ([^"]+)
        m == IF q = k /\ k > j + 1 THEN k - 1 ELSE k
    IN  IF /\ j <= Len(s) /\ j > i + 4
           /\ q <= Len(s) /\ q > m
           /\ At(s, q + 1) = ")"
        THEN [ok |-> TRUE, end |-> q + 1,
              g1 |-> SubSeq(s, i + 4, j - 1), g2 |-> SubSeq(s, m, q - 1)]
        ELSE NoMatch

\* r'print\("([^"]+)"\)'
MatchPlain(s, i) ==
    IF ~OpensPrint(s, i) THEN NoMatch
    ELSE
    LET q == FirstIn(s, i + 3, {QUOTE})
    IN  IF q <= Len(s) /\ q > i + 3 /\ At(s, q + 1) = ")"
        THEN [ok |-> TRUE, end |-> q + 1,
              g1 |-> SubSeq(s, i + 3, q - 1), g2 |-> <<>>]
        ELSE NoMatch

\* r'print\("([^"]+)",\s*([^)]+)\)'
MatchWithArg(s, i) ==
    IF ~OpensPrint(s, i) THEN NoMatch
    ELSE
    LET q == FirstIn(s, i + 3, {QUOTE})
        k == SkipSpace(s, q + 2)
        p == FirstIn(s, k, {")"})
        m == IF p = k /\ k > q + 2 THEN k - 1 ELSE k
    IN  IF /\ q <= Len(s) /\ q > i + 3
           /\ At(s, q + 1) = ","
           /\ p <= Len(s) /\ p > m
        THEN [ok |-> TRUE, end |-> p,
              g1 |-> SubSeq(s, i + 3, q - 1), g2 |-> SubSeq(s, m, p - 1)]
        ELSE NoMatch

\* Logger.shared.log("<message>", category: .<category>, level: .info)
LogCall(message, category) ==
    <<"Logger.shared.log", "(", QUOTE>> \o message
      \o <<QUOTE, ",", " ", "category", ":", " ", ".">> \o category
      \o <<",", " ", "level", ":", " ", ".", "info", ")">>

\* variant: the two group references of the template exchanged
ReplBracketedSwapped(m) == LogCall(m.g1, m.g2)

\* r'Logger.shared.log("\2", category: .\1, level: .info)'
ReplBracketed(m) == LogCall(m.g2, m.g1)

\* r'Logger.shared.log("\1", category: .general, level: .info)'
ReplPlain(m) == LogCall(m.g1, <<"general">>)

\* r'Logger.shared.log("\1: \2", category: .general, level: .info)'
ReplWithArg(m) == LogCall(m.g1 \o <<":", " ">> \o m.g2, <<"general">>)

\* rule r of the list `patterns` is (pattern r, replacement r)
Match(r, s, i) ==
    CASE r = 1 -> MatchBracketed(s, i)
      [] r = 2 -> MatchPlain(s, i)
      [] r = 3 -> MatchWithArg(s, i)

Repl(r, m) ==
    CASE r = 1 -> ReplBracketed(m)
      [] r = 2 -> ReplPlain(m)
      [] r = 3 -> ReplWithArg(m)

\* re.sub(pattern, replacement, content): leftmost, non-overlapping matches,
\* scanning resumes right after each match.
RECURSIVE SubFrom(_, _, _)
SubFrom(r, s, i) ==
    IF i > Len(s) THEN <<>>
    ELSE LET m == Match(r, s, i)
         IN  IF m.ok THEN Repl(r, m) \o SubFrom(r, s, m.end + 1)
             ELSE <<s[i]>> \o SubFrom(r, s, i + 1)

ReSub(r, s) == SubFrom(r, s, 1)

\* the list `patterns`, in the order the for loop visits it
Patterns == <<1, 2, 3>>


\* ------------------------------------------------------------ file system
\* A file name and a directory name are sequences of characters; a path is
\* the sequence of its components.
SwiftExt   == <<".", "s", "w", "i", "f", "t">>
NameSwift  == <<"a">> \o SwiftExt
NameOther  == <<"b">> \o SwiftExt \o <<".", "b", "a", "k">>
Names      == {NameSwift, NameOther}
SubName    == <<"s", "u", "b">>
RootName   == <<"p", "r", "o", "j">>
RootDir    == <<RootName>>
ProgName   == <<"replace_prints.py">>
ExtraArg   == <<<<"x">>>>

\* str.endswith
EndsWith(name, suffix) ==
    /\ Len(name) >= Len(suffix)
    /\ SubSeq(name, Len(name) - Len(suffix) + 1, Len(name)) = suffix

\* os.path.join(root, file)
PathJoin(root, file) == Append(root, file)

VARIABLES
    argv,             \* sys.argv
    rootKind,         \* what the path RootDir names: "missing", "file", "dir"
    tree,             \* tree[n]: the directory n - 1 levels below the root
    disk,             \* content of every regular file of the tree
    disk0,            \* history: the content of every file at the start
    pc,               \* position of the control flow
    swift_files,      \* main: the scan result
    idx,              \* main: position of the for loop in swift_files
    file_path,        \* replace_print_statements: its parameter
    content,          \* replace_print_statements: local
    original_content, \* replace_print_statements: local
    rule,             \* replace_print_statements: position in `patterns`
    result,           \* replace_print_statements: value being returned
    modified_files,   \* main: the modified-file list
    status,           \* exit status of the process, -1 while it runs
    runs,             \* harness: calls of replace_print_statements so far
    returns,          \* history: <<file, value>> of every completed call
    trace             \* history: standard output lines and file accesses

vars == <<argv, rootKind, tree, disk, disk0, pc, swift_files, idx, file_path,
          content, original_content, rule, result, modified_files, status,
          runs, returns, trace>>

NoFile == <<>>
Ev(kind, file, n) == [ev |-> kind, file |-> file, n |-> n]

\* path of the directory tree[n]
RECURSIVE DirPath(_, _)
DirPath(directory, n) ==
    IF n <= 1 THEN directory
    ELSE PathJoin(DirPath(directory, n - 1), SubName)

\* every regular file of a tree
FilesOf(t) ==
    UNION {{PathJoin(DirPath(RootDir, n), t[n].files[i]) :
               i \in 1..Len(t[n].files)} : n \in DOMAIN t}


\* os.path.exists(directory): true of anything the path names
PathExists(directory) == rootKind # "missing"

\* os.scandir fails on a path that is missing, is not a directory, or may
\* not be listed
ScandirFails(n) ==
    \/ rootKind # "dir"
    \/ n > Len(tree)
    \/ ~tree[n].readable

\* variant: os.walk given an onerror that re-raises
WalkRaisesOnError == TRUE

\* os.walk(directory) is called without onerror: os.walk then drops the
\* error of a failed scandir and yields nothing for that directory.
WalkPropagatesError == FALSE

\* os.walk(directory), top-down from tree[n]: the directories it lists, in
\* the order it yields them
RECURSIVE Walk(_)
Walk(n) ==
    IF ScandirFails(n) THEN <<>>
    ELSE <<n>> \o (IF n < Len(tree) THEN Walk(n + 1) ELSE <<>>)

\* a directory os.walk reaches and fails to list
RECURSIVE WalkFailure(_)
WalkFailure(n) ==
    IF ScandirFails(n) THEN TRUE
    ELSE IF n < Len(tree) THEN WalkFailure(n + 1) ELSE FALSE

\* variant: '.swift' in file
ContainsSwiftExt(file) ==
    \E i \in 1..Len(file) : SubSeq(file, i, i + Len(SwiftExt) - 1) = SwiftExt

\* file.endswith('.swift')
IsSwiftName(file) == EndsWith(file, SwiftExt)

\* the inner loop over `files` of one directory
SwiftFilesIn(directory, n) ==
    LET sel == SelectSeq(tree[n].files, IsSwiftName)
    IN  [i \in 1..Len(sel) |-> PathJoin(DirPath(directory, n), sel[i])]

RECURSIVE Collect(_, _)
Collect(directory, visited) ==
    IF visited = <<>> THEN <<>>
    ELSE SwiftFilesIn(directory, Head(visited))
           \o Collect(directory, Tail(visited))

\* find_swift_files(directory)
FindSwiftFiles(directory) ==
    [raised |-> WalkPropagatesError /\ WalkFailure(1),
     value  |-> Collect(directory, Walk(1))]


\* --------------------------------------------- replace_print_statements
\* with open(file_path, 'r') as f: content = f.read(); original_content = content
RP_Read ==
    /\ pc = "rp_read"
    /\ content' = disk[file_path]
    /\ original_content' = disk[file_path]
    /\ rule' = 1
    /\ trace' = Append(trace, Ev("read", file_path, 0))
    /\ pc' = "rp_rules"
    /\ UNCHANGED <<argv, rootKind, tree, disk, disk0, swift_files, idx, file_path,
                   result, modified_files, status, runs, returns>>

\* variant: the read error is caught and the call returns False
RP_ReadErrorCaught ==
    /\ pc = "rp_read"
    /\ trace' = Append(trace, Ev("read_error", file_path, 0))
    /\ pc' = "rp_return"
    /\ result' = FALSE
    /\ UNCHANGED <<argv, rootKind, tree, disk, disk0, swift_files, idx,
                   file_path, content, original_content, rule,
                   modified_files, status, runs, returns>>

\* open or read raises: nothing catches it, the interpreter exits with 1
RP_ReadError ==
    /\ pc = "rp_read"
    /\ trace' = Append(trace, Ev("read_error", file_path, 0))
    /\ pc' = "aborted"
    /\ status' = 1
    /\ UNCHANGED <<argv, rootKind, tree, disk, disk0, swift_files, idx, file_path,
                   content, original_content, rule, result, modified_files,
                   runs, returns>>

\* one turn of: for pattern, replacement in patterns: content = re.sub(...)
RP_ApplyRule ==
    /\ pc = "rp_rules"
    /\ rule <= Len(Patterns)
    /\ content' = ReSub(Patterns[rule], content)
    /\ rule' = rule + 1
    /\ pc' = IF rule = Len(Patterns) THEN "rp_compare" ELSE "rp_rules"
    /\ UNCHANGED <<argv, rootKind, tree, disk, disk0, swift_files, idx, file_path,
                   original_content, result, modified_files, status, runs,
                   returns, trace>>

\* variant: the test inverted
ContentUnchanged == content = original_content

\* variant: the file is written whatever the content
AlwaysWrite == TRUE

\* if content != original_content
ContentChanged == content # original_content

\* the test of line 42, and `return False` when it fails
RP_Compare ==
    /\ pc = "rp_compare"
    /\ IF ContentChanged
       THEN pc' = "rp_write" /\ UNCHANGED result
       ELSE pc' = "rp_return" /\ result' = FALSE
    /\ UNCHANGED <<argv, rootKind, tree, disk, disk0, swift_files, idx, file_path,
                   content, original_content, rule, modified_files, status,
                   runs, returns, trace>>

\* with open(file_path, 'w') as f: f.write(content); return True
RP_Write ==
    /\ pc = "rp_write"
    /\ disk' = [disk EXCEPT ![file_path] = content]
    /\ trace' = Append(trace, Ev("write", file_path, 0))
    /\ result' = TRUE
    /\ pc' = "rp_return"
    /\ UNCHANGED <<argv, rootKind, tree, disk0, swift_files, idx, file_path, content,
                   original_content, rule, modified_files, status, runs,
                   returns>>

\* open(file_path, 'w') raises (the file keeps its content) or f.write
\* raises after open truncated the file
RP_WriteError ==
    /\ pc = "rp_write"
    /\ \E left \in {disk[file_path], <<>>} :
          disk' = [disk EXCEPT ![file_path] = left]
    /\ trace' = Append(trace, Ev("write_error", file_path, 0))
    /\ pc' = "aborted"
    /\ status' = 1
    /\ UNCHANGED <<argv, rootKind, tree, disk0, swift_files, idx, file_path, content,
                   original_content, rule, result, modified_files, runs,
                   returns>>

\* ------------------------------------------------------------------ main
\* if len(sys.argv) != 2: print usage; sys.exit(1)
ValidateArgs ==
    /\ pc = "validate_args"
    /\ IF Len(argv) # 2
       THEN /\ trace' = Append(trace, Ev("print_usage", NoFile, 0))
            /\ status' = 1
            /\ pc' = "exited"
       ELSE /\ pc' = "check_dir"
            /\ UNCHANGED <<trace, status>>
    /\ UNCHANGED <<argv, rootKind, tree, disk, disk0, swift_files, idx, file_path,
                   content, original_content, rule, result, modified_files,
                   runs, returns>>

\* directory = sys.argv[1]; if not os.path.exists(directory): print; exit(1)
CheckDirectory ==
    /\ pc = "check_dir"
    /\ IF ~PathExists(argv[2])
       THEN /\ trace' = Append(trace, Ev("print_no_directory", NoFile, 0))
            /\ status' = 1
            /\ pc' = "exited"
       ELSE /\ pc' = "scan"
            /\ UNCHANGED <<trace, status>>
    /\ UNCHANGED <<argv, rootKind, tree, disk, disk0, swift_files, idx, file_path,
                   content, original_content, rule, result, modified_files,
                   runs, returns>>

\* swift_files = find_swift_files(directory)
Scan ==
    /\ pc = "scan"
    /\ LET r == FindSwiftFiles(argv[2])
       IN  IF r.raised
           THEN pc' = "aborted" /\ status' = 1 /\ UNCHANGED swift_files
           ELSE pc' = "report_found" /\ swift_files' = r.value
                  /\ UNCHANGED status
    /\ UNCHANGED <<argv, rootKind, tree, disk, disk0, idx, file_path, content,
                   original_content, rule, result, modified_files, runs,
                   returns, trace>>

\* print(f"Found {len(swift_files)} Swift files"); modified_files = []
ReportFound ==
    /\ pc = "report_found"
    /\ trace' = Append(trace, Ev("print_found", NoFile, Len(swift_files)))
    /\ modified_files' = <<>>
    /\ idx' = 1
    /\ pc' = "loop"
    /\ UNCHANGED <<argv, rootKind, tree, disk, disk0, swift_files, file_path,
                   content, original_content, rule, result, status, runs,
                   returns>>

\* variant: the loop stops one file early
LoopNextOffByOne ==
    /\ pc = "loop"
    /\ IF idx < Len(swift_files)
       THEN file_path' = swift_files[idx] /\ pc' = "rp_read"
       ELSE pc' = "report_total" /\ UNCHANGED file_path
    /\ UNCHANGED <<argv, rootKind, tree, disk, disk0, swift_files, idx,
                   content, original_content, rule, result, modified_files,
                   status, runs, returns, trace>>

\* for file_path in swift_files: the call of replace_print_statements
LoopNext ==
    /\ pc = "loop"
    /\ IF idx <= Len(swift_files)
       THEN file_path' = swift_files[idx] /\ pc' = "rp_read"
       ELSE pc' = "report_total" /\ UNCHANGED file_path
    /\ UNCHANGED <<argv, rootKind, tree, disk, disk0, swift_files, idx, content,
                   original_content, rule, result, modified_files, status,
                   runs, returns, trace>>

\* variant: the append and the print are not under the if
AfterCallAlwaysAppends ==
    /\ pc = "rp_return"
    /\ returns' = Append(returns, <<file_path, result>>)
    /\ modified_files' = Append(modified_files, file_path)
    /\ trace' = Append(trace, Ev("print_modified", file_path, 0))
    /\ idx' = idx + 1
    /\ pc' = "loop"
    /\ UNCHANGED <<argv, rootKind, tree, disk, disk0, swift_files, file_path,
                   content, original_content, rule, result, status, runs>>

\* if replace_print_statements(file_path): append and print "Modified: ..."
AfterCall ==
    /\ pc = "rp_return"
    /\ returns' = Append(returns, <<file_path, result>>)
    /\ IF result
       THEN /\ modified_files' = Append(modified_files, file_path)
            /\ trace' = Append(trace, Ev("print_modified", file_path, 0))
       ELSE UNCHANGED <<modified_files, trace>>
    /\ idx' = idx + 1
    /\ pc' = "loop"
    /\ UNCHANGED <<argv, rootKind, tree, disk, disk0, swift_files, file_path,
                   content, original_content, rule, result, status, runs>>

\* print(f"\nModified {len(modified_files)} files")
ReportTotal ==
    /\ pc = "report_total"
    /\ trace' = Append(trace, Ev("print_total", NoFile, Len(modified_files)))
    /\ pc' = "report_note"
    /\ UNCHANGED <<argv, rootKind, tree, disk, disk0, swift_files, idx, file_path,
                   content, original_content, rule, result, modified_files,
                   status, runs, returns>>

\* print("Note: ..."); main returns and the interpreter exits with 0
ReportNote ==
    /\ pc = "report_note"
    /\ trace' = Append(trace, Ev("print_note", NoFile, 0))
    /\ status' = 0
    /\ pc' = "exited"
    /\ UNCHANGED <<argv, rootKind, tree, disk, disk0, swift_files, idx, file_path,
                   content, original_content, rule, result, modified_files,
                   runs, returns>>


\* ------------------------------------------------------------ file texts
FragOpen   == <<"print", "(", QUOTE>>              \* print("
FragTag    == <<"[", "Network", "]", " ">>         \* [Network] and a blank
FragMsg    == <<"Request", " ", "failed">>         \* Request failed
FragClose  == <<QUOTE, ")">>                       \* ")
FragSep    == <<QUOTE, ",", " ">>                  \* ", and a blank
FragRParen == <<")">>                              \* )
Fragments  == {FragOpen, FragTag, FragMsg, FragClose, FragSep, FragRParen}

RECURSIVE Flatten(_)
Flatten(fs) == IF fs = <<>> THEN <<>> ELSE Head(fs) \o Flatten(Tail(fs))

\* every text of at most MaxFrags fragments
Contents ==
    {Flatten(fs) : fs \in UNION {[1..n -> Fragments] : n \in 0..MaxFrags}}

Tagged    == FragOpen \o FragTag \o FragMsg \o FragClose
NoPrint   == LogCall(FragMsg, <<"general">>)      \* an already converted call
SampleContents == {Tagged, NoPrint}

\* ---------------------------------------------------------- initial states
RootKinds == {"missing", "file", "dir"}

\* what a directory can hold, as os.walk lists it
Listings == {<<>>, <<NameSwift>>, <<NameOther>>, <<NameOther, NameSwift>>}

DirRecs == [readable : BOOLEAN, files : Listings]

Trees(kind) ==
    IF kind = "dir" THEN UNION {[1..d -> DirRecs] : d \in 1..(MaxDepth + 1)}
    ELSE {<<>>}

Last(p) == p[Len(p)]

Disks(t) ==
    {d \in [FilesOf(t) -> SampleContents] :
        \A f \in FilesOf(t) : ~IsSwiftName(Last(f)) => d[f] = Tagged}

InitLocals ==
    /\ swift_files = <<>>
    /\ idx = 0
    /\ file_path = NoFile
    /\ content = <<>>
    /\ original_content = <<>>
    /\ rule = 0
    /\ result = FALSE
    /\ modified_files = <<>>
    /\ status = -1
    /\ runs = 0
    /\ returns = <<>>
    /\ trace = <<>>

\* python replace_prints.py [<directory> [<extra>]]
Init ==
    /\ argv \in {<<ProgName>>, <<ProgName, RootDir>>,
                 <<ProgName, RootDir, ExtraArg>>}
    /\ rootKind \in RootKinds
    /\ tree \in Trees(rootKind)
    /\ disk \in Disks(tree)
    /\ disk0 = disk
    /\ pc = "validate_args"
    /\ InitLocals

Next ==
    \/ ValidateArgs
    \/ CheckDirectory
    \/ Scan
    \/ ReportFound
    \/ LoopNext
    \/ AfterCall
    \/ ReportTotal
    \/ ReportNote
    \/ RP_Read
    \/ RP_ReadError
    \/ RP_ApplyRule
    \/ RP_Compare
    \/ RP_Write
    \/ RP_WriteError

Spec == Init /\ [][Next]_vars

\* one thread of control: a step that can be taken is taken
FairSpec == Spec /\ WF_vars(Next)

\* ------------------------- replace_print_statements called MaxRuns times
TheFile == PathJoin(RootDir, NameSwift)

InitRewrite ==
    /\ argv = <<ProgName, RootDir>>
    /\ rootKind = "dir"
    /\ tree = <<[readable |-> TRUE, files |-> <<NameSwift>>]>>
    /\ disk \in [{TheFile} -> Contents]
    /\ disk0 = disk
    /\ pc = "h_call"
    /\ InitLocals

H_Call ==
    /\ pc = "h_call"
    /\ runs < MaxRuns
    /\ file_path' = TheFile
    /\ pc' = "rp_read"
    /\ UNCHANGED <<argv, rootKind, tree, disk, disk0, swift_files, idx, content,
                   original_content, rule, result, modified_files, status,
                   runs, returns, trace>>

H_Return ==
    /\ pc = "rp_return"
    /\ returns' = Append(returns, <<file_path, result>>)
    /\ runs' = runs + 1
    /\ pc' = "h_call"
    /\ UNCHANGED <<argv, rootKind, tree, disk, disk0, swift_files, idx, file_path,
                   content, original_content, rule, result, modified_files,
                   status, trace>>

NextRewrite ==
    \/ H_Call
    \/ H_Return
    \/ RP_Read
    \/ RP_ReadError
    \/ RP_ApplyRule
    \/ RP_Compare
    \/ RP_Write
    \/ RP_WriteError

SpecRewrite == InitRewrite /\ [][NextRewrite]_vars

\* ------------------------------------ find_swift_files called on any root
InitScan ==
    /\ argv = <<ProgName, RootDir>>
    /\ rootKind \in RootKinds
    /\ tree \in Trees(rootKind)
    /\ disk = [f \in FilesOf(tree) |-> Tagged]
    /\ disk0 = disk
    /\ pc = "s_call"
    /\ InitLocals

S_Call ==
    /\ pc = "s_call"
    /\ LET r == FindSwiftFiles(RootDir)
       IN  /\ swift_files' = r.value
           /\ pc' = IF r.raised THEN "s_raised" ELSE "s_returned"
    /\ UNCHANGED <<argv, rootKind, tree, disk, disk0, idx, file_path, content,
                   original_content, rule, result, modified_files, status,
                   runs, returns, trace>>

NextScan == S_Call

SpecScan == InitScan /\ [][NextScan]_vars


\* ============================================================= properties
Range(q) == {q[i] : i \in DOMAIN q}

NoDup(q) == \A i, j \in DOMAIN q : q[i] = q[j] => i = j

Count(kind) == Cardinality({i \in DOMAIN trace : trace[i].ev = kind})

IsRead(e)  == e.ev \in {"read", "read_error"}
IsWrite(e) == e.ev \in {"write", "write_error"}
IsIO(e)    == IsRead(e) \/ IsWrite(e)
IsError(e) == e.ev \in {"read_error", "write_error"}

Touched(f) == \E i \in DOMAIN trace : IsIO(trace[i]) /\ trace[i].file = f

OpenedForWriting(f) ==
    \E i \in DOMAIN trace : IsWrite(trace[i]) /\ trace[i].file = f

Wrote(f) == \E i \in DOMAIN trace : trace[i] = Ev("write", f, 0)

\* the text holds a print call: the name print followed by (
HasPrintCall(s) == \E i \in 1..(Len(s) - 1) : s[i] = "print" /\ s[i + 1] = "("

\* the text holds print("
ContainsPrintQuote(s) ==
    \E i \in 1..(Len(s) - 2) :
        s[i] = "print" /\ s[i + 1] = "(" /\ s[i + 2] = QUOTE

Terminal == {"exited", "aborted"}

\* --------------------------------------------------------------------- C1
\* C1: when a call of replace_print_statements returns, the file was written
\* exactly when the content after the three rules differs from the content
\* read, the value returned is True exactly when it was written, and the file
\* holds the content after the rules.
C1_WriteIffChanged ==
    /\ pc = "rp_return" =>
          /\ original_content = disk0[file_path]
          /\ Wrote(file_path) <=> (content # original_content)
          /\ result <=> Wrote(file_path)
          /\ disk[file_path] = content
    /\ \A i \in DOMAIN returns : returns[i][2] <=> Wrote(returns[i][1])

\* one run in which a call returned True and another returned False
C1_Witness ==
    /\ pc = "exited"
    /\ \E i, j \in DOMAIN returns : returns[i][2] /\ ~returns[j][2]

\* --------------------------------------------------------------------- C9
\* C9: a file whose content holds no print call keeps its content, is never
\* opened for writing, is never reported as modified and makes
\* replace_print_statements return False.
C9_NoPrintNoWrite ==
    \A f \in DOMAIN disk0 :
        ~HasPrintCall(disk0[f]) =>
            /\ disk[f] = disk0[f]
            /\ ~OpenedForWriting(f)
            /\ f \notin Range(modified_files)
            /\ \A i \in DOMAIN returns : returns[i][1] = f => ~returns[i][2]

\* a finished run that scanned a file without any print call
C9_Witness ==
    /\ pc = "exited"
    /\ \E i \in DOMAIN returns :
          ~returns[i][2] /\ ~HasPrintCall(disk0[returns[i][1]])

\* --------------------------------------------------------------------- C6
\* the state the call left a file in, given the value it returned
LeftAsReturned(f, r) ==
    IF r THEN /\ Wrote(f)
              /\ disk[f] # disk0[f]
              /\ disk0[f] = Tagged => disk[f] = LogCall(FragMsg, <<"Network">>)
         ELSE disk[f] = disk0[f] /\ ~OpenedForWriting(f)

\* C6: an I/O error on the k-th scanned file is the last thing the run does:
\* it ends with status 1, the k - 1 files before are as their calls left
\* them, the files after hold their original content and were never opened,
\* and neither the total nor the note was printed.
C6_AbortOnIOError ==
    \A i \in DOMAIN trace :
        IsError(trace[i]) =>
            /\ i = Len(trace)
            /\ pc = "aborted"
            /\ status = 1
            /\ idx \in DOMAIN swift_files
            /\ trace[i].file = swift_files[idx]
            /\ Len(returns) = idx - 1
            /\ \A j \in 1..(idx - 1) :
                  /\ returns[j][1] = swift_files[j]
                  /\ LeftAsReturned(swift_files[j], returns[j][2])
            /\ \A j \in (idx + 1)..Len(swift_files) :
                  /\ disk[swift_files[j]] = disk0[swift_files[j]]
                  /\ ~Touched(swift_files[j])
            /\ Count("print_total") = 0
            /\ Count("print_note") = 0

\* the error hits the second of three files, after the first was rewritten
C6_Witness ==
    /\ pc = "aborted"
    /\ idx = 2
    /\ Len(swift_files) = 3
    /\ returns[1][2]

\* --------------------------------------------------------------------- C4
\* C4: started with an argument count other than one, or with a path that
\* names no directory, the run never gets past the two checks, exits with
\* status 1 and reads or writes no file.
C4_InvalidStartExitsOne ==
    (Len(argv) # 2 \/ rootKind # "dir") =>
        /\ pc \in {"validate_args", "check_dir", "exited"}
        /\ pc = "exited" => status = 1
        /\ \A i \in DOMAIN trace : ~IsIO(trace[i])
        /\ disk = disk0


\* -------------------------------------------------------------------- C10
\* the read attempts, in the order they were made
Reads == SelectSeq(trace, IsRead)

\* the read attempts made before event i
ReadsBefore(i) == Cardinality({j \in 1..(i - 1) : IsRead(trace[j])})

TraceOrder ==
    /\ Count("print_found") <= 1
    /\ Len(Reads) <= Len(swift_files)
    /\ NoDup(Reads)
    /\ \A i \in DOMAIN Reads : Reads[i].file = swift_files[i]
    /\ \A i \in DOMAIN trace :
          /\ IsIO(trace[i]) =>
                \E j \in 1..(i - 1) : trace[j].ev = "print_found"
          /\ IsWrite(trace[i]) =>
                i > 1 /\ trace[i - 1] = Ev("read", trace[i].file, 0)
          /\ trace[i].ev = "write" /\ i < Len(trace) =>
                trace[i + 1] = Ev("print_modified", trace[i].file, 0)
          /\ trace[i].ev = "print_modified" =>
                i > 1 /\ trace[i - 1] = Ev("write", trace[i].file, 0)
          /\ trace[i].ev = "print_total" =>
                /\ ReadsBefore(i) = Len(swift_files)
                /\ Count("read_error") = 0
                /\ trace[i].n = Len(modified_files)
                /\ i + 1 >= Len(trace)
          /\ trace[i].ev = "print_note" =>
                i = Len(trace) /\ i > 1 /\ trace[i - 1].ev = "print_total"
    /\ pc = "exited" /\ status = 0 =>
          /\ Len(Reads) = Len(swift_files)
          /\ trace[Len(trace)].ev = "print_note"

\* place of a control point in the text of main
Pos(p) ==
    CASE p = "validate_args" -> 1
      [] p = "check_dir"     -> 2
      [] p = "scan"          -> 3
      [] p = "report_found"  -> 4
      [] p = "loop"          -> 5
      [] p = "rp_read"       -> 6
      [] p = "rp_rules"      -> 7
      [] p = "rp_compare"    -> 8
      [] p = "rp_write"      -> 9
      [] p = "rp_return"     -> 10
      [] p = "report_total"  -> 11
      [] p = "report_note"   -> 12
      [] p \in Terminal      -> 13

StepForward ==
    \/ Pos(pc') > Pos(pc) /\ (idx' = idx \/ pc = "report_found")
    \/ pc = "rp_rules" /\ pc' = "rp_rules" /\ rule' = rule + 1 /\ idx' = idx
    \/ pc = "rp_return" /\ pc' = "loop" /\ idx' = idx + 1

\* C10: the run only moves forward through validate, check, scan, the files
\* in scan order, report, exit: the found count is printed before any file
\* access, each file is read once and written at most once right after its
\* read, its Modified line directly follows its write, and the total and
\* then the note come last, after every file was read.
C10_LinearRun == [](TraceOrder) /\ [][StepForward]_vars

\* a completed run over three files of which one at least was rewritten
C10_Witness ==
    /\ pc = "exited"
    /\ status = 0
    /\ Len(swift_files) = 3
    /\ Len(modified_files) >= 1
    /\ Len(modified_files) < 3

\* --------------------------------------------------------------------- C8
ValidStart == Len(argv) = 2 /\ rootKind = "dir"

AllReadable == \A n \in DOMAIN tree : tree[n].readable

\* the files of the tree whose name is a.swift
Matching == {f \in DOMAIN disk0 : Last(f) = NameSwift}

ExitReport ==
    ValidStart /\ AllReadable /\ pc = "exited" =>
        /\ status = 0
        /\ \E i \in DOMAIN trace :
              trace[i] = Ev("print_found", NoFile, Cardinality(Matching))
        /\ Len(trace) >= 2
        /\ trace[Len(trace) - 1] = Ev("print_total", NoFile, Count("write"))
        /\ Matching = {} =>
              trace = <<Ev("print_found", NoFile, 0),
                        Ev("print_total", NoFile, 0),
                        Ev("print_note", NoFile, 0)>>

AbortOnlyOnError ==
    pc = "aborted" => \E i \in DOMAIN trace : IsError(trace[i])

\* C8: every run comes to an end; one that was given a single argument
\* naming a directory and met no I/O error ends by exiting with status 0
\* after printing the number of matching files as found and the number of
\* files written as modified, 0 and 0 when no file matches.
C8_TerminatesWithReport ==
    /\ [](ExitReport)
    /\ [](AbortOnlyOnError)
    /\ <>(pc \in Terminal)

\* a completed run that found three files and rewrote some, not all
C8_Witness ==
    /\ ValidStart
    /\ AllReadable
    /\ pc = "exited"
    /\ status = 0
    /\ Cardinality(Matching) = 3
    /\ Count("write") = 2

\* --------------------------------------------------------------------- C2
Lower(t) == IF t = "Network" THEN "network" ELSE t

LowerAll(q) == [i \in 1..Len(q) |-> Lower(q[i])]

\* print("[<tag>] <message>")
TaggedCall(tag, message) ==
    <<"print", "(", QUOTE, "[">> \o tag \o <<"]", " ">>
      \o message \o <<QUOTE, ")">>

\* text around the call: nothing, or one fragment that opens no print
Contexts == {<<>>} \cup (Fragments \ {FragOpen})

TagsTried == {<<"Network">>}

MessagesTried == {FragMsg, FragMsg \o FragMsg, <<"failed">>}

FirstCallDone == pc = "rp_return" /\ runs = 0

SecondCallDone == pc = "rp_return" /\ runs = 1

\* C3 as claimed: the second call on the same file changes nothing and
\* returns False.
C3_SecondRunNoChange ==
    SecondCallDone =>
        /\ ~result
        /\ content = original_content
        /\ disk[TheFile] = original_content

\* C3 (amended): when the content the first call left holds no print(" any
\* more, the second call changes nothing, writes nothing and returns False.
C3_SecondRunNoChangeOnceConverted ==
    SecondCallDone /\ ~ContainsPrintQuote(original_content) =>
        /\ ~result
        /\ content = original_content
        /\ disk[TheFile] = original_content
        /\ Count("write") = (IF returns[1][2] THEN 1 ELSE 0)

\* the second call on a file the first call rewrote has returned
C3_Witness ==
    /\ SecondCallDone
    /\ returns[1][2]
    /\ ~ContainsPrintQuote(original_content)
    /\ ~result

\* --------------------------------------------------------------------- C5
\* tree[n] and every directory above it can be listed
Listable(n) == rootKind = "dir" /\ \A k \in 1..n : tree[k].readable

ScanDone == pc \in {"s_returned", "s_raised"}

\* the walk reaches a directory it cannot list
MeetsUnreadable ==
    \E n \in DOMAIN tree :
        ~tree[n].readable /\ \A k \in 1..(n - 1) : tree[k].readable

====
